---- MODULE Spec2Model ----
(***************************************************************************)
(* Model of the ESP-MESH data transfer component                           *)
(* (components/mesh/src/mesh_data_transfer.c): the receive task, the       *)
(* init/deinit/register entry points and the three send paths.  The mesh   *)
(* transport (esp_mesh_send, esp_mesh_recv, the routing table, the role    *)
(* queries), the heap and the scheduler are collaborators: what they       *)
(* return is drawn from small sets.                                        *)
(***************************************************************************)
EXTENDS Integers, Sequences, FiniteSets, TLC

(***************************************************************************)
(* Bounds of the model                                                     *)
(***************************************************************************)
MaxTasks == 2
MaxFrameLen == 5
MaxRoute == 3
MaxCallers == 2
\* Leading bytes of a buffer the model keeps one by one (see Bytes)
ExplicitLen == 8

(***************************************************************************)
(* Program constants and values                                            *)
(***************************************************************************)
MESH_RX_BUFFER_SIZE == 1500
\* sizeof(mesh_data_header_t): packed u8 type, u16 length, u8 reserved
HeaderSize == 4
\* width of uint16_t (header.length, the length argument, packet_size)
UINT16_MOD == 65536

ESP_OK == "ESP_OK"
ESP_FAIL == "ESP_FAIL"
ESP_ERR_INVALID_ARG == "ESP_ERR_INVALID_ARG"
ESP_ERR_INVALID_STATE == "ESP_ERR_INVALID_STATE"
ESP_ERR_NO_MEM == "ESP_ERR_NO_MEM"
ESP_ERR_MESH_NOT_START == "ESP_ERR_MESH_NOT_START"
ESP_ERR_MESH_NOT_ROOT == "ESP_ERR_MESH_NOT_ROOT"

\* Errors the transport primitives may report
RecvErrs == {"ESP_ERR_MESH_NOT_START"}
SendErrs == {"ESP_FAIL", "ESP_ERR_MESH_NO_ROUTE_FOUND"}

MESH_DATA_TODS == "MESH_DATA_TODS"
MESH_DATA_FROMDS == "MESH_DATA_FROMDS"

NULL_TASK == 0
NULL_CB == "NULL"
NULL_ADDR == "NULL"

TaskIds == 1..MaxTasks
\* Tasks of the application calling mesh_data_transfer_init and _deinit
Callers == 1..MaxCallers
Callbacks == {"cb1", "cb2"}
\* Transport source addresses of inbound frames
SrcAddrs == {"mac_A", "mac_B"}
\* Byte values inbound frames are made of
RxBytes == {0, 1}

RECURSIVE SeqsUpTo(_, _)
SeqsUpTo(S, n) ==
  IF n = 0 THEN {<<>>}
  ELSE LET shorter == SeqsUpTo(S, n - 1)
       IN shorter \cup {Append(s, b) : s \in {x \in shorter : Len(x) = n - 1}, b \in S}

Min(a, b) == IF a <= b THEN a ELSE b

(***************************************************************************)
(* Byte buffers.  A buffer of len bytes is kept as its first ExplicitLen    *)
(* bytes (head) and the one value (fill) all its further bytes have: the    *)
(* payloads of the model are either short or filled with one byte value,    *)
(* so that a 65535-byte payload is a value as small as a 4-byte one.        *)
(***************************************************************************)
\* The buffer of n bytes with first bytes h and all further bytes c
Bytes(n, h, c) ==
  [len |-> n, head |-> h, fill |-> IF n > ExplicitLen THEN c ELSE 0]
\* buf[i], counted from 1
At(buf, i) == IF i <= Len(buf.head) THEN buf.head[i] ELSE buf.fill
FromSeq(s) ==
  Bytes(Len(s), [i \in 1..Min(Len(s), ExplicitLen) |-> s[i]],
        IF Len(s) > ExplicitLen THEN s[ExplicitLen + 1] ELSE 0)
Filled(n, c) == Bytes(n, [i \in 1..Min(n, ExplicitLen) |-> c], c)
\* the n bytes of buf from position lo on
Sub(buf, lo, n) ==
  Bytes(n, [i \in 1..Min(n, ExplicitLen) |-> At(buf, lo + i - 1)],
        At(buf, lo + ExplicitLen))
Concat(a, b) ==
  LET at(i) == IF i <= a.len THEN At(a, i) ELSE At(b, i - a.len)
  IN Bytes(a.len + b.len, [i \in 1..Min(a.len + b.len, ExplicitLen) |-> at(i)],
           at(ExplicitLen + 1))
EmptyBuf == FromSeq(<<>>)

\* Frames esp_mesh_recv may hand to the receive task
RxFrames == {FromSeq(s) : s \in SeqsUpTo(RxBytes, MaxFrameLen)}

VARIABLES
  s_initialized,          \* static bool s_initialized
  s_receive_task_handle,  \* static TaskHandle_t s_receive_task_handle
  s_receive_callback,     \* static mesh_data_receive_cb_t s_receive_callback
  pc,                     \* position of each receive task
  from,                   \* local from of each receive task
  data,                   \* local data of each receive task (size and the bytes of rx_buf)
  rx_log,                 \* last diagnostic line each receive task logged
  invoked,                \* callback invocations made for the frame in hand
  rx_heap,                \* receive tasks whose rx_buf is allocated and not freed
  ctl,                    \* last init/deinit/register call and its result
  call,                   \* last send call: entry point, arguments, mesh state seen
  ret,                    \* result of the last send call
  mallocs,                \* malloc calls of the last send call
  frees,                  \* free calls of the last send call
  sends,                  \* esp_mesh_send calls of the last send call
  rt_queries,             \* routing-table queries of the last send call
  cpc,                    \* position of each task calling init or deinit
  registry,               \* the node registry: entries in insertion order
  reg_call,               \* last registry or resolver call and its arguments
  reg_ret,                \* result of the last registry or resolver call
  aborted                 \* the process was terminated

rxvars == <<s_initialized, s_receive_task_handle, s_receive_callback, pc,
            from, data, rx_log, invoked, rx_heap, ctl>>
txvars == <<call, ret, mallocs, frees, sends, rt_queries>>
lifevars == <<cpc>>
regvars == <<registry, reg_call, reg_ret>>
vars == <<rxvars, txvars, lifevars, regvars, aborted>>

LoopStates == {"recv", "dispatch", "callback"}

NoData == [size |-> MESH_RX_BUFFER_SIZE, data |-> EmptyBuf]
\* An init, deinit or register call: the entry point, the callback passed
\* (register only) and the result
Ctl(op, arg, r) == [op |-> op, arg |-> arg, ret |-> r]
NoCtl == Ctl("none", NULL_CB, "none")
\* A diagnostic line: the message, and the error name or numbers printed with it
LogLine(m, e, a, b) == [msg |-> m, e |-> e, a |-> a, b |-> b]
NoLog == LogLine("none", "none", 0, 0)
NoCall == [op |-> "none"]

Init ==
  /\ s_initialized = FALSE
  /\ s_receive_task_handle = NULL_TASK
  /\ s_receive_callback = NULL_CB
  /\ pc = [t \in TaskIds |-> "unborn"]
  /\ from = [t \in TaskIds |-> NULL_ADDR]
  /\ data = [t \in TaskIds |-> NoData]
  /\ rx_log = [t \in TaskIds |-> NoLog]
  /\ invoked = [t \in TaskIds |-> <<>>]
  /\ rx_heap = {}
  /\ ctl = NoCtl
  /\ call = NoCall
  /\ ret = "none"
  /\ mallocs = <<>>
  /\ frees = <<>>
  /\ sends = <<>>
  /\ rt_queries = <<>>
  /\ cpc = [c \in Callers |-> "idle"]
  /\ registry = <<>>
  /\ reg_call = NoCall
  /\ reg_ret = "none"
  /\ aborted = FALSE

(***************************************************************************)
(* Packet header access (mesh_data_header_t laid over the raw bytes,       *)
(* little-endian)                                                          *)
(***************************************************************************)
header_type(f) == At(f, 1)
header_length(f) == At(f, 2) + 256 * At(f, 3)
packet_payload(f, n) == Sub(f, HeaderSize + 1, n)

(***************************************************************************)
(* The receive task                                                        *)
(***************************************************************************)
\* lines 20-38: the task starts and allocates its receive buffer
TaskStart(t) ==
  /\ ~aborted
  /\ pc[t] = "start"
  /\ \/ /\ pc' = [pc EXCEPT ![t] = "deleted"]
        /\ rx_log' = [rx_log EXCEPT ![t] = LogLine("alloc_failed", "none", 0, 0)]
        /\ UNCHANGED rx_heap
     \/ /\ pc' = [pc EXCEPT ![t] = "recv"]
        /\ rx_heap' = rx_heap \cup {t}
        /\ UNCHANGED rx_log
  /\ UNCHANGED <<s_initialized, s_receive_task_handle, s_receive_callback,
                 from, data, invoked, ctl, txvars, lifevars, regvars, aborted>>

\* RecvOutcome with the length check relaxed to "declared length fits"
RecvOutcome_AcceptsLonger(e, size, bytes) ==
  IF e # ESP_OK THEN LogLine("recv_failed", e, 0, 0)
  ELSE IF size < HeaderSize THEN LogLine("too_small", "none", size, 0)
  ELSE IF header_length(bytes) + HeaderSize > size
       THEN LogLine("length_mismatch", "none", header_length(bytes) + HeaderSize, size)
  ELSE LogLine("received", "none", header_type(bytes), header_length(bytes))

\* lines 48-71: the branch the loop takes on one return of esp_mesh_recv, as
\* the diagnostic line it logs
RecvOutcome(e, size, bytes) ==
  IF e # ESP_OK THEN LogLine("recv_failed", e, 0, 0)
  ELSE IF size < HeaderSize THEN LogLine("too_small", "none", size, 0)
  ELSE IF header_length(bytes) + HeaderSize # size
       THEN LogLine("length_mismatch", "none", header_length(bytes) + HeaderSize, size)
  ELSE LogLine("received", "none", header_type(bytes), header_length(bytes))

\* RecvReturn leaving the loop (break) instead of continuing after a bad frame
RecvReturn_BreakOnBadFrame(t, e, src, f) ==
  /\ ~aborted
  /\ pc[t] = "recv"
  /\ f.len <= data[t].size
  /\ from' = [from EXCEPT ![t] = IF e = ESP_OK THEN src ELSE @]
  /\ LET o == RecvOutcome(e, f.len, f)
     IN /\ rx_log' = [rx_log EXCEPT ![t] = o]
        /\ IF o.msg = "received"
           THEN /\ pc' = [pc EXCEPT ![t] = "dispatch"]
                /\ data' = [data EXCEPT ![t] = [size |-> f.len, data |-> f]]
                /\ UNCHANGED rx_heap
           ELSE /\ pc' = [pc EXCEPT ![t] = IF o.msg = "recv_failed" THEN "recv" ELSE "deleted"]
                /\ data' = [data EXCEPT ![t] = NoData]
                /\ rx_heap' = IF o.msg = "recv_failed" THEN rx_heap ELSE rx_heap \ {t}
  /\ UNCHANGED <<s_initialized, s_receive_task_handle, s_receive_callback,
                 invoked, ctl, txvars, lifevars, regvars, aborted>>

\* lines 40-71: the task is blocked in esp_mesh_recv with data.size reset;
\* esp_mesh_recv returns e, and on success a frame f from src.  A frame that
\* fails validation is dropped and the loop is back in esp_mesh_recv.
RecvReturn(t, e, src, f) ==
  /\ ~aborted
  /\ pc[t] = "recv"
  /\ f.len <= data[t].size
  /\ from' = [from EXCEPT ![t] = IF e = ESP_OK THEN src ELSE @]
  /\ LET o == RecvOutcome(e, f.len, f)
     IN /\ rx_log' = [rx_log EXCEPT ![t] = o]
        /\ IF o.msg = "received"
           THEN /\ pc' = [pc EXCEPT ![t] = "dispatch"]
                /\ data' = [data EXCEPT ![t] = [size |-> f.len, data |-> f]]
           ELSE /\ pc' = [pc EXCEPT ![t] = "recv"]
                /\ data' = [data EXCEPT ![t] = NoData]
  /\ UNCHANGED <<s_initialized, s_receive_task_handle, s_receive_callback,
                 invoked, rx_heap, ctl, txvars, lifevars, regvars, aborted>>

\* Dispatch passing the received size where the header length belongs
Dispatch_PassesFrameSize(t) ==
  /\ ~aborted
  /\ pc[t] = "dispatch"
  /\ IF s_receive_callback # NULL_CB
     THEN /\ invoked' = [invoked EXCEPT ![t] =
                 Append(@, [cb |-> s_receive_callback,
                            from |-> from[t],
                            data_type |-> header_type(data[t].data),
                            payload |-> packet_payload(data[t].data,
                                                       header_length(data[t].data)),
                            length |-> data[t].size])]
          /\ pc' = [pc EXCEPT ![t] = "callback"]
          /\ UNCHANGED <<rx_log, data>>
     ELSE /\ rx_log' = [rx_log EXCEPT ![t] = LogLine("no_callback", "none", 0, 0)]
          /\ pc' = [pc EXCEPT ![t] = "recv"]
          /\ data' = [data EXCEPT ![t] = NoData]
          /\ UNCHANGED invoked
  /\ UNCHANGED <<s_initialized, s_receive_task_handle, s_receive_callback,
                 from, rx_heap, ctl, txvars, lifevars, regvars, aborted>>

\* lines 73-79: the callback is read and, when set, called
Dispatch(t) ==
  /\ ~aborted
  /\ pc[t] = "dispatch"
  /\ IF s_receive_callback # NULL_CB
     THEN /\ invoked' = [invoked EXCEPT ![t] =
                 Append(@, [cb |-> s_receive_callback,
                            from |-> from[t],
                            data_type |-> header_type(data[t].data),
                            payload |-> packet_payload(data[t].data,
                                                       header_length(data[t].data)),
                            length |-> header_length(data[t].data)])]
          /\ pc' = [pc EXCEPT ![t] = "callback"]
          /\ UNCHANGED <<rx_log, data>>
     ELSE /\ rx_log' = [rx_log EXCEPT ![t] = LogLine("no_callback", "none", 0, 0)]
          /\ pc' = [pc EXCEPT ![t] = "recv"]
          /\ data' = [data EXCEPT ![t] = NoData]
          /\ UNCHANGED invoked
  /\ UNCHANGED <<s_initialized, s_receive_task_handle, s_receive_callback,
                 from, rx_heap, ctl, txvars, lifevars, regvars, aborted>>

\* lines 75-80 and 40-46: the callback returns, the loop resets data.size and
\* blocks in esp_mesh_recv again
CallbackReturn(t) ==
  /\ ~aborted
  /\ pc[t] = "callback"
  /\ pc' = [pc EXCEPT ![t] = "recv"]
  /\ data' = [data EXCEPT ![t] = NoData]
  /\ invoked' = [invoked EXCEPT ![t] = <<>>]
  /\ UNCHANGED <<s_initialized, s_receive_task_handle, s_receive_callback,
                 from, rx_log, rx_heap, ctl, txvars, lifevars, regvars, aborted>>

\* One wakeup of the blocking receive: an error, or any frame that fits the buffer
Receive(t) ==
  \/ \E e \in RecvErrs : RecvReturn(t, e, NULL_ADDR, EmptyBuf)
  \/ \E src \in SrcAddrs, f \in RxFrames : RecvReturn(t, ESP_OK, src, f)

TaskStep(t) == TaskStart(t) \/ Receive(t) \/ Dispatch(t) \/ CallbackReturn(t)

(***************************************************************************)
(* Component life cycle                                                    *)
(***************************************************************************)
FreshTasks == {t \in TaskIds : pc[t] = "unborn"}

\* mesh_data_transfer_init without the check of s_initialized
mesh_data_transfer_init_NoStateCheck ==
  /\ ~aborted
  /\ \/ /\ ctl' = Ctl("init", NULL_CB, ESP_FAIL)
        /\ UNCHANGED <<s_initialized, s_receive_task_handle, pc>>
     \/ /\ FreshTasks # {}
        /\ LET t == CHOOSE x \in FreshTasks : \A y \in FreshTasks : x <= y
           IN /\ pc' = [pc EXCEPT ![t] = "start"]
              /\ s_receive_task_handle' = t
        /\ s_initialized' = TRUE
        /\ ctl' = Ctl("init", NULL_CB, ESP_OK)
  /\ UNCHANGED <<s_receive_callback, from, data, rx_log, invoked, rx_heap,
                 txvars, lifevars, regvars, aborted>>

\* lines 87-108
mesh_data_transfer_init ==
  /\ ~aborted
  /\ IF s_initialized
     THEN /\ ctl' = Ctl("init", NULL_CB, ESP_ERR_INVALID_STATE)
          /\ UNCHANGED <<s_initialized, s_receive_task_handle, pc>>
     ELSE \/ /\ ctl' = Ctl("init", NULL_CB, ESP_FAIL)
             /\ UNCHANGED <<s_initialized, s_receive_task_handle, pc>>
          \/ /\ FreshTasks # {}
             /\ LET t == CHOOSE x \in FreshTasks : \A y \in FreshTasks : x <= y
                IN /\ pc' = [pc EXCEPT ![t] = "start"]
                   /\ s_receive_task_handle' = t
             /\ s_initialized' = TRUE
             /\ ctl' = Ctl("init", NULL_CB, ESP_OK)
  /\ UNCHANGED <<s_receive_callback, from, data, rx_log, invoked, rx_heap,
                 txvars, lifevars, regvars, aborted>>

\* lines 110-130
mesh_data_transfer_deinit ==
  /\ ~aborted
  /\ IF ~s_initialized
     THEN /\ ctl' = Ctl("deinit", NULL_CB, ESP_FAIL)
          /\ UNCHANGED <<s_initialized, s_receive_task_handle, s_receive_callback,
                         pc, from, data, invoked, rx_log, aborted>>
     ELSE IF s_receive_task_handle # NULL_TASK /\ pc[s_receive_task_handle] = "deleted"
     THEN \* vTaskDelete on the handle of a task that deleted itself: the
          \* process is brought down, or the stale delete goes unnoticed
          \/ /\ aborted' = TRUE
             /\ UNCHANGED <<s_initialized, s_receive_task_handle, s_receive_callback,
                            pc, from, data, invoked, rx_log, ctl>>
          \/ /\ s_receive_task_handle' = NULL_TASK
             /\ s_receive_callback' = NULL_CB
             /\ s_initialized' = FALSE
             /\ ctl' = Ctl("deinit", NULL_CB, ESP_OK)
             /\ UNCHANGED <<pc, from, data, invoked, rx_log, aborted>>
     ELSE /\ IF s_receive_task_handle # NULL_TASK
             THEN LET t == s_receive_task_handle
                  IN /\ pc' = [pc EXCEPT ![t] = "deleted"]
                     /\ from' = [from EXCEPT ![t] = NULL_ADDR]
                     /\ data' = [data EXCEPT ![t] = NoData]
                     /\ invoked' = [invoked EXCEPT ![t] = <<>>]
                     /\ rx_log' = [rx_log EXCEPT ![t] = NoLog]
             ELSE UNCHANGED <<pc, from, data, invoked, rx_log>>
          /\ s_receive_task_handle' = NULL_TASK
          /\ s_receive_callback' = NULL_CB
          /\ s_initialized' = FALSE
          /\ ctl' = Ctl("deinit", NULL_CB, ESP_OK)
          /\ UNCHANGED aborted
  /\ UNCHANGED <<rx_heap, txvars, lifevars, regvars>>

\* mesh_register_receive_callback storing whatever it is given
mesh_register_receive_callback_AcceptsNull(callback) ==
  /\ ~aborted
  /\ s_receive_callback' = callback
  /\ ctl' = Ctl("register", callback, ESP_OK)
  /\ UNCHANGED <<s_initialized, s_receive_task_handle, pc, from, data,
                 rx_log, invoked, rx_heap, txvars, lifevars, regvars, aborted>>

\* lines 311-320
mesh_register_receive_callback(callback) ==
  /\ ~aborted
  /\ IF callback = NULL_CB
     THEN /\ ctl' = Ctl("register", callback, ESP_ERR_INVALID_ARG)
          /\ UNCHANGED s_receive_callback
     ELSE /\ s_receive_callback' = callback
          /\ ctl' = Ctl("register", callback, ESP_OK)
  /\ UNCHANGED <<s_initialized, s_receive_task_handle, pc, from, data,
                 rx_log, invoked, rx_heap, txvars, lifevars, regvars, aborted>>

(***************************************************************************)
(* The send paths                                                          *)
(***************************************************************************)
\* sizeof(mesh_addr_t)
MESH_ADDR_SIZE == 6

SendResults == {ESP_OK} \cup SendErrs

\* The payload argument: a null pointer, or a pointer to a buffer
NullPayload == [null |-> TRUE, bytes |-> EmptyBuf]
PayloadAt(buf) == [null |-> FALSE, bytes |-> buf]

\* The example of the wire format: 12 34 56 78
ExamplePayload == FromSeq(<<18, 52, 86, 120>>)

\* (data_type, payload, length) triples the send paths are called with: null
\* and empty arguments, short payloads, and payloads around the largest
\* length a uint16_t holds
SmallArgs ==
  { <<1, NullPayload, 1>>,
    <<1, PayloadAt(FromSeq(<<18>>)), 0>>,
    <<1, PayloadAt(ExamplePayload), 4>>,
    <<255, PayloadAt(FromSeq(<<52>>)), 1>> }
WideArgs ==
  { <<1, PayloadAt(Filled(n, 171)), n>> : n \in {65531, 65532, 65533} }
    \cup { <<255, PayloadAt(Filled(65535, 171)), 65535>> }
SendArgs == SmallArgs \cup WideArgs
\* The fan-out multiplies the outcomes of a call: fewer arguments for it
BroadcastArgs ==
  { <<1, NullPayload, 1>>,
    <<1, PayloadAt(FromSeq(<<18>>)), 0>>,
    <<1, PayloadAt(ExamplePayload), 4>>,
    <<1, PayloadAt(Filled(65533, 171)), 65533>> }

\* Routing tables the transport may report: the first k of the nodes below
\* the root, in the order the transport lists them
RoutingTables ==
  LET all == <<"mac_A", "mac_B", "mac_C", "mac_D", "mac_E">>
  IN {SubSeq(all, 1, k) : k \in 0..Min(MaxRoute, Len(all))}

\* lines 145, 197, 249: uint16_t packet_size = sizeof(mesh_data_header_t) + length
packet_size(length) == (HeaderSize + length) % UINT16_MOD

\* lines 152-156: the header fields and the payload copy, as the bytes written
\* from the start of the packet buffer
build_packet(data_type, payload, length) ==
  Concat(FromSeq(<<data_type, length % 256, length \div 256, 0>>),
         Sub(payload.bytes, 1, length))

\* lines 159-163: the mesh_data_t handed to esp_mesh_send: packet_size bytes
\* from the start of the packet buffer
mesh_data(data_type, payload, length) ==
  [size |-> packet_size(length),
   data |-> Sub(build_packet(data_type, payload, length), 1, packet_size(length))]

\* The packet is written past the end of its buffer
Overflows(length) == packet_size(length) < HeaderSize + length

Malloc(size, ok) == [size |-> size, ok |-> ok]
SendRec(to, flag, d, e) == [to |-> to, flag |-> flag, data |-> d, err |-> e]
Query(q, n, table, e) == [q |-> q, n |-> n, table |-> table, err |-> e]
CallRec(op, dest, data_type, payload, length, active, root) ==
  [op |-> op, dest |-> dest, data_type |-> data_type, payload |-> payload,
   length |-> length, active |-> active, root |-> root]

\* How a send call ends: its result (or "none" when it never returns), what it
\* allocated, freed, sent and queried, and whether it terminated the process
Outcome(c, r, m, f, s, q, abort) ==
  /\ call' = c
  /\ ret' = r
  /\ mallocs' = m
  /\ frees' = f
  /\ sends' = s
  /\ rt_queries' = q
  /\ aborted' = abort
  /\ UNCHANGED <<rxvars, lifevars>>

\* mesh_send_to_root returning ESP_FAIL for every failed send
mesh_send_to_root_HidesError(data_type, payload, length, active, root) ==
  LET c == CallRec("mesh_send_to_root", NULL_ADDR, data_type, payload, length, active, root)
      size == packet_size(length)
  IN /\ ~aborted
     /\ IF payload.null \/ length = 0
        THEN Outcome(c, ESP_ERR_INVALID_ARG, <<>>, <<>>, <<>>, <<>>, FALSE)
        ELSE IF ~active
        THEN Outcome(c, ESP_ERR_MESH_NOT_START, <<>>, <<>>, <<>>, <<>>, FALSE)
        ELSE \/ Outcome(c, ESP_ERR_NO_MEM, <<Malloc(size, FALSE)>>, <<>>, <<>>, <<>>, FALSE)
             \/ /\ Overflows(length)
                /\ Outcome(c, "none", <<Malloc(size, TRUE)>>, <<>>, <<>>, <<>>, TRUE)
             \/ \E e \in SendResults :
                  Outcome(c, IF e = ESP_OK THEN ESP_OK ELSE ESP_FAIL,
                          <<Malloc(size, TRUE)>>, <<1>>,
                          <<SendRec(NULL_ADDR, MESH_DATA_TODS,
                                    mesh_data(data_type, payload, length), e)>>,
                          <<>>, FALSE)

\* lines 132-177
mesh_send_to_root(data_type, payload, length, active, root) ==
  LET c == CallRec("mesh_send_to_root", NULL_ADDR, data_type, payload, length, active, root)
      size == packet_size(length)
  IN /\ ~aborted
     /\ IF payload.null \/ length = 0
        THEN Outcome(c, ESP_ERR_INVALID_ARG, <<>>, <<>>, <<>>, <<>>, FALSE)
        ELSE IF ~active
        THEN Outcome(c, ESP_ERR_MESH_NOT_START, <<>>, <<>>, <<>>, <<>>, FALSE)
        ELSE \/ Outcome(c, ESP_ERR_NO_MEM, <<Malloc(size, FALSE)>>, <<>>, <<>>, <<>>, FALSE)
             \* the header and the payload do not fit the buffer: the writes
             \* past its end either bring the process down or go unnoticed
             \/ /\ Overflows(length)
                /\ Outcome(c, "none", <<Malloc(size, TRUE)>>, <<>>, <<>>, <<>>, TRUE)
             \/ \E e \in SendResults :
                  Outcome(c, e, <<Malloc(size, TRUE)>>, <<1>>,
                          <<SendRec(NULL_ADDR, MESH_DATA_TODS,
                                    mesh_data(data_type, payload, length), e)>>,
                          <<>>, FALSE)

\* mesh_send_to_child without the check of the destination pointer
mesh_send_to_child_NoDestCheck(dest_addr, data_type, payload, length, active, root) ==
  LET c == CallRec("mesh_send_to_child", dest_addr, data_type, payload, length, active, root)
      size == packet_size(length)
  IN /\ ~aborted
     /\ IF payload.null \/ length = 0
        THEN Outcome(c, ESP_ERR_INVALID_ARG, <<>>, <<>>, <<>>, <<>>, FALSE)
        ELSE IF ~active
        THEN Outcome(c, ESP_ERR_MESH_NOT_START, <<>>, <<>>, <<>>, <<>>, FALSE)
        ELSE IF ~root
        THEN Outcome(c, ESP_FAIL, <<>>, <<>>, <<>>, <<>>, FALSE)
        ELSE \/ Outcome(c, ESP_ERR_NO_MEM, <<Malloc(size, FALSE)>>, <<>>, <<>>, <<>>, FALSE)
             \/ /\ Overflows(length)
                /\ Outcome(c, "none", <<Malloc(size, TRUE)>>, <<>>, <<>>, <<>>, TRUE)
             \/ \E e \in SendResults :
                  Outcome(c, e, <<Malloc(size, TRUE)>>, <<1>>,
                          <<SendRec(dest_addr, MESH_DATA_FROMDS,
                                    mesh_data(data_type, payload, length), e)>>,
                          <<>>, FALSE)

\* mesh_send_to_child sending the way mesh_send_to_root does
mesh_send_to_child_Upstream(dest_addr, data_type, payload, length, active, root) ==
  LET c == CallRec("mesh_send_to_child", dest_addr, data_type, payload, length, active, root)
      size == packet_size(length)
  IN /\ ~aborted
     /\ IF dest_addr = NULL_ADDR \/ payload.null \/ length = 0
        THEN Outcome(c, ESP_ERR_INVALID_ARG, <<>>, <<>>, <<>>, <<>>, FALSE)
        ELSE IF ~active
        THEN Outcome(c, ESP_ERR_MESH_NOT_START, <<>>, <<>>, <<>>, <<>>, FALSE)
        ELSE IF ~root
        THEN Outcome(c, ESP_FAIL, <<>>, <<>>, <<>>, <<>>, FALSE)
        ELSE \/ Outcome(c, ESP_ERR_NO_MEM, <<Malloc(size, FALSE)>>, <<>>, <<>>, <<>>, FALSE)
             \/ /\ Overflows(length)
                /\ Outcome(c, "none", <<Malloc(size, TRUE)>>, <<>>, <<>>, <<>>, TRUE)
             \/ \E e \in SendResults :
                  Outcome(c, e, <<Malloc(size, TRUE)>>, <<1>>,
                          <<SendRec(NULL_ADDR, MESH_DATA_TODS,
                                    mesh_data(data_type, payload, length), e)>>,
                          <<>>, FALSE)

\* lines 179-229
mesh_send_to_child(dest_addr, data_type, payload, length, active, root) ==
  LET c == CallRec("mesh_send_to_child", dest_addr, data_type, payload, length, active, root)
      size == packet_size(length)
  IN /\ ~aborted
     /\ IF dest_addr = NULL_ADDR \/ payload.null \/ length = 0
        THEN Outcome(c, ESP_ERR_INVALID_ARG, <<>>, <<>>, <<>>, <<>>, FALSE)
        ELSE IF ~active
        THEN Outcome(c, ESP_ERR_MESH_NOT_START, <<>>, <<>>, <<>>, <<>>, FALSE)
        ELSE IF ~root
        THEN Outcome(c, ESP_FAIL, <<>>, <<>>, <<>>, <<>>, FALSE)
        ELSE \/ Outcome(c, ESP_ERR_NO_MEM, <<Malloc(size, FALSE)>>, <<>>, <<>>, <<>>, FALSE)
             \/ /\ Overflows(length)
                /\ Outcome(c, "none", <<Malloc(size, TRUE)>>, <<>>, <<>>, <<>>, TRUE)
             \/ \E e \in SendResults :
                  Outcome(c, e, <<Malloc(size, TRUE)>>, <<1>>,
                          <<SendRec(dest_addr, MESH_DATA_FROMDS,
                                    mesh_data(data_type, payload, length), e)>>,
                          <<>>, FALSE)

\* FanOut leaving the loop at the first send that fails
FanOut_StopsAtFailure(table, d, results) ==
  LET failed == {i \in 1..Len(table) : results[i] # ESP_OK}
      last == IF failed = {} THEN Len(table)
              ELSE CHOOSE i \in failed : \A j \in failed : i <= j
  IN [i \in 1..last |-> SendRec(table[i], MESH_DATA_FROMDS, d, results[i])]

\* lines 290-300: one esp_mesh_send per fetched address, in table order, with
\* the results the transport gives
FanOut(table, d, results) ==
  [i \in 1..Len(table) |-> SendRec(table[i], MESH_DATA_FROMDS, d, results[i])]

\* success_count counting a fan-out only when every send of it succeeded
success_count_AllOrNothing(s) ==
  IF \A i \in 1..Len(s) : s[i].err = ESP_OK THEN Len(s) ELSE 0

\* lines 288, 295-296: the sends of the fan-out that returned ESP_OK
success_count(s) == Cardinality({i \in 1..Len(s) : s[i].err = ESP_OK})

\* lines 231-309.  sizes: what esp_mesh_get_routing_table_size may return;
\* tables: the routing table esp_mesh_get_routing_table may find afterwards,
\* of which it copies as many addresses as the buffer holds
mesh_broadcast_from_root(data_type, payload, length, active, root, sizes, tables) ==
  LET c == CallRec("mesh_broadcast_from_root", NULL_ADDR, data_type, payload, length,
                   active, root)
      size == packet_size(length)
      d == mesh_data(data_type, payload, length)
      m1 == <<Malloc(size, TRUE)>>
  IN /\ ~aborted
     /\ IF payload.null \/ length = 0
        THEN Outcome(c, ESP_ERR_INVALID_ARG, <<>>, <<>>, <<>>, <<>>, FALSE)
        ELSE IF ~active
        THEN Outcome(c, ESP_ERR_MESH_NOT_START, <<>>, <<>>, <<>>, <<>>, FALSE)
        ELSE IF ~root
        THEN Outcome(c, ESP_FAIL, <<>>, <<>>, <<>>, <<>>, FALSE)
        ELSE \/ Outcome(c, ESP_ERR_NO_MEM, <<Malloc(size, FALSE)>>, <<>>, <<>>, <<>>, FALSE)
             \/ /\ Overflows(length)
                /\ Outcome(c, "none", m1, <<>>, <<>>, <<>>, TRUE)
             \/ \E n \in sizes :
                  LET q1 == <<Query("size", n, <<>>, ESP_OK)>>
                      m2(ok) == Append(m1, Malloc(n * MESH_ADDR_SIZE, ok))
                  IN IF n = 0
                     THEN Outcome(c, ESP_OK, m1, <<1>>, <<>>, q1, FALSE)
                     ELSE \/ Outcome(c, ESP_ERR_NO_MEM, m2(FALSE), <<1>>, <<>>, q1, FALSE)
                          \* ESP_ERROR_CHECK on a failed table fetch
                          \/ \E e \in SendErrs :
                               Outcome(c, "none", m2(TRUE), <<>>, <<>>,
                                       Append(q1, Query("table", 0, <<>>, e)), TRUE)
                          \/ \E rt \in tables :
                               LET got == SubSeq(rt, 1, Min(n, Len(rt)))
                                   q2 == Append(q1, Query("table", Len(got), got, ESP_OK))
                               IN \E results \in [1..Len(got) -> SendResults] :
                                    LET s == FanOut(got, d, results)
                                    IN Outcome(c,
                                               IF success_count(s) > 0 THEN ESP_OK
                                               ELSE ESP_FAIL,
                                               m2(TRUE), <<2, 1>>, s, q2, FALSE)

\* The three send paths called with any of args (the fan-out with any of
\* bargs), on any mesh state, with any of tables as the routing table
SendCalls(args, bargs, sizes, tables) ==
  \E active \in BOOLEAN, root \in BOOLEAN :
    \/ \E a \in args :
         mesh_send_to_root(a[1], a[2], a[3], active, root) /\ UNCHANGED regvars
    \/ \E a \in args, dest \in {NULL_ADDR, "mac_A"} :
         mesh_send_to_child(dest, a[1], a[2], a[3], active, root) /\ UNCHANGED regvars
    \/ \E a \in bargs :
         /\ mesh_broadcast_from_root(a[1], a[2], a[3], active, root, sizes, tables)
         /\ UNCHANGED regvars

NextSend == SendCalls(SendArgs, BroadcastArgs, 0..MaxRoute, RoutingTables)

SpecSend == Init /\ [][NextSend]_vars

(***************************************************************************)
(* Sender and receiver back to back: what a send path hands to             *)
(* esp_mesh_send is what esp_mesh_recv hands to the receive task           *)
(***************************************************************************)
\* Payloads of the back-to-back runs: the example, the longest whose frame
\* fits the receive buffer and the next longer one, and the longest lengths
\* of a uint16_t
CodecArgs ==
  { <<1, PayloadAt(ExamplePayload), 4>>,
    <<255, PayloadAt(Filled(MESH_RX_BUFFER_SIZE - HeaderSize, 171)),
      MESH_RX_BUFFER_SIZE - HeaderSize>>,
    <<1, PayloadAt(Filled(MESH_RX_BUFFER_SIZE - HeaderSize + 1, 171)),
      MESH_RX_BUFFER_SIZE - HeaderSize + 1>>,
    <<1, PayloadAt(Filled(UINT16_MOD - 3, 171)), UINT16_MOD - 3>>,
    <<255, PayloadAt(Filled(UINT16_MOD - 1, 171)), UINT16_MOD - 1>> }

\* lines 40-46 fed from lines 159-166: esp_mesh_recv returns a frame of the
\* last send call, unchanged.  A frame longer than the data.size the task
\* offers cannot be handed over whole: the receive fails, or returns the
\* bytes that fit.
Loopback(t) ==
  \E i \in 1..Len(sends) :
    LET f == sends[i].data.data
    IN IF f.len <= data[t].size
       THEN RecvReturn(t, ESP_OK, "mac_A", f)
       ELSE \/ \E e \in RecvErrs : RecvReturn(t, e, NULL_ADDR, EmptyBuf)
            \/ RecvReturn(t, ESP_OK, "mac_A", Sub(f, 1, data[t].size))

\* The send paths on a node that may use them: started, and root for the
\* downstream paths, with a routing table of at most one node
CodecCalls ==
  \/ \E a \in CodecArgs :
       mesh_send_to_root(a[1], a[2], a[3], TRUE, FALSE) /\ UNCHANGED regvars
  \/ \E a \in CodecArgs :
       mesh_send_to_child("mac_A", a[1], a[2], a[3], TRUE, TRUE) /\ UNCHANGED regvars
  \/ \E a \in CodecArgs :
       /\ mesh_broadcast_from_root(a[1], a[2], a[3], TRUE, TRUE, {1}, {<<"mac_A">>})
       /\ UNCHANGED regvars

NextCodec ==
  \/ mesh_data_transfer_init
  \/ mesh_register_receive_callback("cb1")
  \/ \E t \in TaskIds : TaskStart(t) \/ Loopback(t) \/ Dispatch(t) \/ CallbackReturn(t)
  \/ CodecCalls

SpecCodec == Init /\ [][NextCodec]_vars

(***************************************************************************)
(* The life cycle statement by statement: mesh_data_transfer_init and      *)
(* _deinit take no lock, so calls made from several tasks interleave       *)
(* between the statements below                                            *)
(***************************************************************************)
LifeUnchanged == <<from, data, rx_log, invoked, txvars, regvars>>

\* lines 88-91: init reads s_initialized
InitCheck(c) ==
  /\ ~aborted
  /\ cpc[c] = "idle"
  /\ IF s_initialized
     THEN ctl' = Ctl("init", NULL_CB, ESP_ERR_INVALID_STATE) /\ UNCHANGED cpc
     ELSE cpc' = [cpc EXCEPT ![c] = "init_create"] /\ UNCHANGED ctl
  /\ UNCHANGED <<s_initialized, s_receive_task_handle, s_receive_callback, pc,
                 rx_heap, LifeUnchanged, aborted>>

\* lines 96-103: xTaskCreate stores the handle of the task it creates
InitCreate(c) ==
  /\ ~aborted
  /\ cpc[c] = "init_create"
  /\ \/ /\ ctl' = Ctl("init", NULL_CB, ESP_FAIL)
        /\ cpc' = [cpc EXCEPT ![c] = "idle"]
        /\ UNCHANGED <<s_receive_task_handle, pc>>
     \/ /\ FreshTasks # {}
        /\ LET t == CHOOSE x \in FreshTasks : \A y \in FreshTasks : x <= y
           IN /\ pc' = [pc EXCEPT ![t] = "start"]
              /\ s_receive_task_handle' = t
        /\ cpc' = [cpc EXCEPT ![c] = "init_set"]
        /\ UNCHANGED ctl
  /\ UNCHANGED <<s_initialized, s_receive_callback, rx_heap, LifeUnchanged, aborted>>

\* lines 105-107
InitSet(c) ==
  /\ ~aborted
  /\ cpc[c] = "init_set"
  /\ s_initialized' = TRUE
  /\ ctl' = Ctl("init", NULL_CB, ESP_OK)
  /\ cpc' = [cpc EXCEPT ![c] = "idle"]
  /\ UNCHANGED <<s_receive_task_handle, s_receive_callback, pc, rx_heap,
                 LifeUnchanged, aborted>>

\* lines 111-114: deinit reads s_initialized
DeinitCheck(c) ==
  /\ ~aborted
  /\ cpc[c] = "idle"
  /\ IF ~s_initialized
     THEN ctl' = Ctl("deinit", NULL_CB, ESP_FAIL) /\ UNCHANGED cpc
     ELSE cpc' = [cpc EXCEPT ![c] = "deinit_delete"] /\ UNCHANGED ctl
  /\ UNCHANGED <<s_initialized, s_receive_task_handle, s_receive_callback, pc,
                 rx_heap, LifeUnchanged, aborted>>

\* lines 119-122: the task behind the handle is deleted and the handle cleared
DeinitDelete(c) ==
  /\ ~aborted
  /\ cpc[c] = "deinit_delete"
  /\ IF s_receive_task_handle = NULL_TASK
     THEN /\ cpc' = [cpc EXCEPT ![c] = "deinit_clear"]
          /\ UNCHANGED <<s_receive_task_handle, pc, from, data, invoked, rx_log, aborted>>
     ELSE IF pc[s_receive_task_handle] = "deleted"
     THEN \* vTaskDelete on the handle of a task that deleted itself
          \/ /\ aborted' = TRUE
             /\ UNCHANGED <<s_receive_task_handle, pc, from, data, invoked, rx_log, cpc>>
          \/ /\ s_receive_task_handle' = NULL_TASK
             /\ cpc' = [cpc EXCEPT ![c] = "deinit_clear"]
             /\ UNCHANGED <<pc, from, data, invoked, rx_log, aborted>>
     ELSE LET t == s_receive_task_handle
          IN /\ pc' = [pc EXCEPT ![t] = "deleted"]
             /\ from' = [from EXCEPT ![t] = NULL_ADDR]
             /\ data' = [data EXCEPT ![t] = NoData]
             /\ invoked' = [invoked EXCEPT ![t] = <<>>]
             /\ rx_log' = [rx_log EXCEPT ![t] = NoLog]
             /\ s_receive_task_handle' = NULL_TASK
             /\ cpc' = [cpc EXCEPT ![c] = "deinit_clear"]
             /\ UNCHANGED aborted
  /\ UNCHANGED <<s_initialized, s_receive_callback, rx_heap, ctl, txvars, regvars>>

\* lines 125-129
DeinitClear(c) ==
  /\ ~aborted
  /\ cpc[c] = "deinit_clear"
  /\ s_receive_callback' = NULL_CB
  /\ s_initialized' = FALSE
  /\ ctl' = Ctl("deinit", NULL_CB, ESP_OK)
  /\ cpc' = [cpc EXCEPT ![c] = "idle"]
  /\ UNCHANGED <<s_receive_task_handle, pc, rx_heap, LifeUnchanged, aborted>>

\* The receive tasks of the interleaved runs start, block in esp_mesh_recv
\* and take a frame from it
LifeFrames == {FromSeq(<<1, 0, 0, 0>>)}

NextLife ==
  \/ \E c \in Callers :
       \/ InitCheck(c) \/ InitCreate(c) \/ InitSet(c)
       \/ DeinitCheck(c) \/ DeinitDelete(c) \/ DeinitClear(c)
  \/ \E t \in TaskIds :
       \/ TaskStart(t)
       \/ \E f \in LifeFrames : RecvReturn(t, ESP_OK, "mac_A", f)
       \/ Dispatch(t)

SpecLife == Init /\ [][NextLife]_vars

\* The interleaved life cycle with a callback registered: the receive tasks
\* deliver the frames they take and the callback returns
NextDeliver ==
  \/ NextLife
  \/ mesh_register_receive_callback("cb1")
  \/ \E t \in TaskIds : CallbackReturn(t)

SpecDeliver == Init /\ [][NextDeliver]_vars

(***************************************************************************)
(* The node registry and the address resolver (declared in mesh.h; the     *)
(* registry keeps no clock here: last_seen is left out of the entries)     *)
(***************************************************************************)
MESH_MAX_REGISTERED_NODES == 20
MESH_NODE_TYPE_SENSOR == 1
MESH_NODE_TYPE_ACTUATOR == 2
ESP_ERR_NOT_FOUND == "ESP_ERR_NOT_FOUND"
NULL_NAME == "NULL"

\* A node id one past the ids that fill the registry
ProbeId == MESH_MAX_REGISTERED_NODES + 1

\* mesh_registered_node_t
Entry(node_id, mac_addr, node_type, name) ==
  [node_id |-> node_id, mac_addr |-> mac_addr, node_type |-> node_type,
   name |-> name, is_active |-> TRUE]

\* lookup: the slots holding node_id
Slots(reg, node_id) == {i \in 1..Len(reg) : reg[i].node_id = node_id}

mesh_get_registered_node_count == Len(registry)

\* the entry at index (from 0), or the bad-argument error
mesh_get_registered_node_info(index) ==
  IF index >= 0 /\ index < Len(registry)
  THEN [ret |-> ESP_OK, node_info |-> registry[index + 1]]
  ELSE [ret |-> ESP_ERR_INVALID_ARG]

RegCall(node_id, mac_addr, node_type, name) ==
  [op |-> "mesh_register_node", node_id |-> node_id, mac_addr |-> mac_addr,
   node_type |-> node_type, name |-> name]

\* mesh_register_node appending a new entry for every call
mesh_register_node_AlwaysAppends(node_id, mac_addr, node_type, name) ==
  /\ ~aborted
  /\ reg_call' = RegCall(node_id, mac_addr, node_type, name)
  /\ IF node_id = 0 \/ mac_addr = NULL_ADDR \/ name = NULL_NAME
     THEN reg_ret' = ESP_ERR_INVALID_ARG /\ UNCHANGED registry
     ELSE IF Len(registry) < MESH_MAX_REGISTERED_NODES
     THEN /\ registry' = Append(registry, Entry(node_id, mac_addr, node_type, name))
          /\ reg_ret' = ESP_OK
     ELSE reg_ret' = ESP_ERR_NO_MEM /\ UNCHANGED registry
  /\ UNCHANGED <<rxvars, txvars, lifevars, aborted>>

\* mesh_register_node making room in a full registry by dropping the oldest entry
mesh_register_node_EvictsOldest(node_id, mac_addr, node_type, name) ==
  /\ ~aborted
  /\ reg_call' = RegCall(node_id, mac_addr, node_type, name)
  /\ IF node_id = 0 \/ mac_addr = NULL_ADDR \/ name = NULL_NAME
     THEN reg_ret' = ESP_ERR_INVALID_ARG /\ UNCHANGED registry
     ELSE IF Slots(registry, node_id) # {}
     THEN /\ registry' = [i \in 1..Len(registry) |->
                            IF i \in Slots(registry, node_id)
                            THEN Entry(node_id, mac_addr, node_type, name)
                            ELSE registry[i]]
          /\ reg_ret' = ESP_OK
     ELSE IF Len(registry) < MESH_MAX_REGISTERED_NODES
     THEN /\ registry' = Append(registry, Entry(node_id, mac_addr, node_type, name))
          /\ reg_ret' = ESP_OK
     ELSE /\ registry' = Append(Tail(registry), Entry(node_id, mac_addr, node_type, name))
          /\ reg_ret' = ESP_OK
  /\ UNCHANGED <<rxvars, txvars, lifevars, aborted>>

\* register_or_update: a known node_id is overwritten in its slot, a new one
\* is appended while there is room, and refused when the registry is full
mesh_register_node(node_id, mac_addr, node_type, name) ==
  /\ ~aborted
  /\ reg_call' = RegCall(node_id, mac_addr, node_type, name)
  /\ IF node_id = 0 \/ mac_addr = NULL_ADDR \/ name = NULL_NAME
     THEN reg_ret' = ESP_ERR_INVALID_ARG /\ UNCHANGED registry
     ELSE IF Slots(registry, node_id) # {}
     THEN /\ registry' = [i \in 1..Len(registry) |->
                            IF i \in Slots(registry, node_id)
                            THEN Entry(node_id, mac_addr, node_type, name)
                            ELSE registry[i]]
          /\ reg_ret' = ESP_OK
     ELSE IF Len(registry) < MESH_MAX_REGISTERED_NODES
     THEN /\ registry' = Append(registry, Entry(node_id, mac_addr, node_type, name))
          /\ reg_ret' = ESP_OK
     ELSE reg_ret' = ESP_ERR_NO_MEM /\ UNCHANGED registry
  /\ UNCHANGED <<rxvars, txvars, lifevars, aborted>>

\* clear_all
mesh_clear_node_registry ==
  /\ ~aborted
  /\ registry' = <<>>
  /\ reg_call' = [op |-> "mesh_clear_node_registry"]
  /\ reg_ret' = ESP_OK
  /\ UNCHANGED <<rxvars, txvars, lifevars, aborted>>

ResolveCall(node_id, data_type, payload, length, active, root) ==
  [op |-> "mesh_send_to_node_id", node_id |-> node_id, data_type |-> data_type,
   payload |-> payload, length |-> length, active |-> active, root |-> root]

\* send_to_node_id: bad arguments and a caller that is not the root are
\* refused, an unknown node_id is not found, and a known one is forwarded to
\* mesh_send_to_child with the address stored for it
mesh_send_to_node_id(node_id, data_type, payload, length, active, root) ==
  /\ ~aborted
  /\ reg_call' = ResolveCall(node_id, data_type, payload, length, active, root)
  /\ UNCHANGED registry
  /\ IF node_id = 0 \/ payload.null \/ length = 0
     THEN /\ reg_ret' = ESP_ERR_INVALID_ARG
          /\ UNCHANGED <<rxvars, txvars, lifevars, aborted>>
     ELSE IF ~root
     THEN /\ reg_ret' = ESP_FAIL
          /\ UNCHANGED <<rxvars, txvars, lifevars, aborted>>
     ELSE IF Slots(registry, node_id) = {}
     THEN /\ reg_ret' = ESP_ERR_NOT_FOUND
          /\ UNCHANGED <<rxvars, txvars, lifevars, aborted>>
     ELSE LET i == CHOOSE k \in Slots(registry, node_id) :
                     \A j \in Slots(registry, node_id) : k <= j
          IN /\ mesh_send_to_child(registry[i].mac_addr, data_type, payload, length,
                                   active, root)
             /\ reg_ret' = ret'

\* Registrations as they arrive: node_id 0, the first node under either of
\* two identities, and every further node under one identity
RegisterArgs ==
  { <<0, "mac_A", MESH_NODE_TYPE_SENSOR, "sensor_0">>,
    <<1, "mac_A", MESH_NODE_TYPE_SENSOR, "sensor_1">>,
    <<1, "mac_B", MESH_NODE_TYPE_ACTUATOR, "actuator_1">>,
    <<2, "mac_C", MESH_NODE_TYPE_SENSOR, "sensor_2">> }
  \cup { <<id, "mac_D", MESH_NODE_TYPE_SENSOR, "sensor_n">> : id \in 3..ProbeId }

\* Nodes announce themselves in the order of their ids, but for the first
\* two, which come in either order and may announce themselves again
Announces(node_id) ==
  \/ node_id <= 2
  \/ node_id = Len(registry) + 1

\* The resolver is called for node_id 0, for the first two nodes and for a
\* node that never registers, on a started node that is or is not the root
NextReg ==
  \/ \E a \in RegisterArgs :
       Announces(a[1]) /\ mesh_register_node(a[1], a[2], a[3], a[4])
  \/ mesh_clear_node_registry
  \/ \E id \in {0, 1, 2, ProbeId}, root \in BOOLEAN :
       mesh_send_to_node_id(id, 1, PayloadAt(ExamplePayload), 4, TRUE, root)

SpecReg == Init /\ [][NextReg]_vars

(***************************************************************************)
(* Identity announcements arriving at the root of the registry example     *)
(* (main/main_example_node_registry.c): the receive task hands every       *)
(* valid frame to the one registered callback, my_data_handler             *)
(***************************************************************************)
MESH_DATA_TYPE_SENSOR == 1
MESH_DATA_TYPE_CONTROL == 2
MESH_DATA_TYPE_CONFIG == 4
\* char name[16] of mesh_node_identity_t
NameSize == 16
\* sizeof(mesh_node_identity_t): packed u8 node_id, u8 node_type, char name[16]
IdentitySize == 18

\* The bytes of a mesh_node_identity_t: node_id, node_type and the name,
\* NUL-padded to its 16 bytes
mesh_node_identity_t(node_id, node_type, name) ==
  FromSeq(<<node_id, node_type>> \o name \o [i \in 1..(NameSize - Len(name)) |-> 0])

\* The frame a child's announcement arrives in: the identity record sent as
\* the payload of a packet of the config type
IdentityFrame(node_id, node_type, name) ==
  mesh_data(MESH_DATA_TYPE_CONFIG,
            PayloadAt(mesh_node_identity_t(node_id, node_type, name)),
            IdentitySize).data

\* Frames the root of the example receives: the announcements of nodes 1 and
\* 2 (named "s" and "a") and a sensor reading
IdentFrames ==
  { IdentityFrame(1, MESH_NODE_TYPE_SENSOR, <<115>>),
    IdentityFrame(2, MESH_NODE_TYPE_ACTUATOR, <<97>>),
    mesh_data(MESH_DATA_TYPE_SENSOR, PayloadAt(ExamplePayload), 4).data }

\* lines 33-50 of the example: the line my_data_handler logs for a data type
HandlerCase(data_type) ==
  IF data_type = MESH_DATA_TYPE_SENSOR THEN "Sensor data received"
  ELSE IF data_type = MESH_DATA_TYPE_CONTROL THEN "Control command received"
  ELSE IF data_type = MESH_DATA_TYPE_CONFIG THEN "Config data received"
  ELSE "Unknown data type"

\* lines 28-51 of the example, run as the callback of receive task t: the
\* handler logs the case of the data type and returns, and the loop is back
\* in esp_mesh_recv
my_data_handler(t) ==
  /\ ~aborted
  /\ pc[t] = "callback"
  /\ invoked[t] # <<>>
  /\ invoked[t][1].cb = "my_data_handler"
  /\ rx_log' = [rx_log EXCEPT ![t] =
                  LogLine(HandlerCase(invoked[t][1].data_type), "none",
                          invoked[t][1].length, invoked[t][1].data_type)]
  /\ pc' = [pc EXCEPT ![t] = "recv"]
  /\ data' = [data EXCEPT ![t] = NoData]
  /\ invoked' = [invoked EXCEPT ![t] = <<>>]
  /\ UNCHANGED <<s_initialized, s_receive_task_handle, s_receive_callback,
                 from, rx_heap, ctl, txvars, lifevars, regvars, aborted>>

\* Nodes the application of the root registers by a call of its own
IdentRegisterArgs ==
  { <<1, "mac_C", MESH_NODE_TYPE_SENSOR, "sensor_1">>,
    <<2, "mac_C", MESH_NODE_TYPE_SENSOR, "sensor_2">> }

\* lines 157-190 of the example on the root: the component is initialized,
\* my_data_handler is registered, and frames arrive from the children
NextIdent ==
  \/ mesh_data_transfer_init
  \/ mesh_register_receive_callback("my_data_handler")
  \/ \E a \in IdentRegisterArgs : mesh_register_node(a[1], a[2], a[3], a[4])
  \/ \E t \in TaskIds :
       \/ TaskStart(t)
       \/ \E src \in SrcAddrs, f \in IdentFrames : RecvReturn(t, ESP_OK, src, f)
       \/ Dispatch(t)
       \/ my_data_handler(t)

SpecIdent == Init /\ [][NextIdent]_vars

NextRx ==
  \/ mesh_data_transfer_init
  \/ mesh_data_transfer_deinit
  \/ \E cb \in Callbacks \cup {NULL_CB} : mesh_register_receive_callback(cb)
  \/ \E t \in TaskIds : TaskStep(t)

Next == NextRx

Spec == Init /\ [][Next]_vars

(***************************************************************************)
(* Properties of the receive loop                                          *)
(***************************************************************************)
DropMsgs == {"recv_failed", "too_small", "length_mismatch"}

\* A frame as the wire format defines a well-formed one
WellFormed(size, bytes) ==
  /\ size >= 4
  /\ bytes.len = size
  /\ bytes.head[2] + 256 * bytes.head[3] + 4 = size

\* The invocation the frame in the hands of task t calls for
ExpectedInvocation(t, cb) ==
  [cb |-> cb,
   from |-> from[t],
   data_type |-> data[t].data.head[1],
   payload |-> Sub(data[t].data, 5, data[t].size - 4),
   length |-> data[t].data.head[2] + 256 * data[t].data.head[3]]

C1_StateOk(t) ==
  /\ rx_log[t].msg = "too_small" => rx_log[t].a < 4
  /\ rx_log[t].msg = "length_mismatch" => rx_log[t].a # rx_log[t].b
  /\ pc[t] = "callback" =>
       \E cb \in Callbacks : invoked[t] = <<ExpectedInvocation(t, cb)>>
  /\ pc[t] # "callback" => invoked[t] = <<>>

C1_DispatchStep(t) ==
  (pc[t] = "dispatch" /\ pc'[t] \in {"recv", "callback"}) =>
     IF s_receive_callback # NULL_CB
     THEN /\ pc'[t] = "callback"
          /\ invoked'[t] = <<ExpectedInvocation(t, s_receive_callback)>>
     ELSE /\ pc'[t] = "recv"
          /\ invoked'[t] = <<>>
          /\ rx_log'[t].msg = "no_callback"

\* C1: a well-formed frame received with success is never dropped by the
\* validation; when a callback is registered at dispatch it is invoked exactly
\* once with the frame's source address, header type, the payload bytes after
\* the header and the header length; with no callback registered the frame is
\* discarded and nothing is invoked.
C1_ValidFrameDeliveredOnce ==
  /\ [](\A t \in TaskIds : C1_StateOk(t))
  /\ [][\A t \in TaskIds : C1_DispatchStep(t)]_vars

C1_Witness ==
  \E t \in TaskIds :
    /\ pc[t] = "callback"
    /\ Len(invoked[t]) = 1
    /\ invoked[t][1].length = 1
    /\ invoked[t][1].payload = FromSeq(<<1>>)
    /\ invoked[t][1].from = "mac_B"

C2_StateOk(t) ==
  /\ pc[t] \in {"dispatch", "callback"} => WellFormed(data[t].size, data[t].data)
  /\ pc[t] \in {"dispatch", "callback"} => rx_log[t].msg = "received"
  /\ invoked[t] # <<>> => pc[t] = "callback"
  /\ rx_log[t].msg \in DropMsgs => pc[t] = "recv" /\ invoked[t] = <<>>

C2_DropStep(t) ==
  (rx_log'[t] # rx_log[t] /\ rx_log'[t].msg \in DropMsgs) =>
     /\ s_receive_callback' = s_receive_callback
     /\ pc[t] = "recv" /\ pc'[t] = "recv"
     /\ invoked'[t] = <<>>
     /\ data'[t] = NoData

\* C2: the callback is never invoked for a frame shorter than the header, for
\* a frame whose header length plus 4 differs from the received size, or for
\* a failed receive; such a frame is dropped whole: the registered callback is
\* untouched and the loop is back in the blocking receive.
C2_BadFrameNeverDelivered ==
  /\ [](\A t \in TaskIds : C2_StateOk(t))
  /\ [][\A t \in TaskIds : C2_DropStep(t)]_vars

C2_Witness ==
  \E t \in TaskIds :
    /\ pc[t] = "recv"
    /\ rx_log[t].msg = "length_mismatch"
    /\ rx_log[t].a = rx_log[t].b + 1
    /\ s_receive_callback # NULL_CB

C3_LoopStep(t) ==
  pc[t] \in LoopStates =>
    \/ pc'[t] = pc[t]
    \/ pc[t] = "recv" /\ pc'[t] \in {"recv", "dispatch"}
    \/ pc[t] = "dispatch" /\ pc'[t] \in {"callback", "recv"}
    \/ pc[t] = "callback" /\ pc'[t] = "recv"
    \/ /\ pc'[t] = "deleted"
       /\ s_initialized /\ ~s_initialized'
       /\ s_receive_task_handle = t
       /\ ctl' = Ctl("deinit", NULL_CB, ESP_OK)

\* C3: whatever the transport returns, the receive loop stays in its cycle
\* recv -> (dispatch -> (callback ->)) recv: in every loop position of a live
\* process the task has a next step, and the only way out of the loop is
\* being deleted by a successful mesh_data_transfer_deinit.
C3_LoopNeverEnds ==
  /\ [](\A t \in TaskIds : (pc[t] \in LoopStates /\ ~aborted) => ENABLED TaskStep(t))
  /\ [][\A t \in TaskIds : C3_LoopStep(t)]_vars

C3_Witness ==
  \E t \in TaskIds :
    /\ pc[t] = "recv"
    /\ rx_log[t].msg \in {"too_small", "length_mismatch", "recv_failed"}
    /\ s_initialized
    /\ s_receive_task_handle = t

(***************************************************************************)
(* Properties of the send paths                                            *)
(***************************************************************************)
\* The last send call returned to its caller
Returned == call.op # "none" /\ ret # "none"

\* The last send call passed the argument checks
ValidArgs ==
  /\ call.op # "none"
  /\ ~call.payload.null
  /\ call.length > 0
  /\ call.op = "mesh_send_to_child" => call.dest # NULL_ADDR

\* The frame the wire format defines for the arguments of the last send call
WireFrame ==
  Concat(FromSeq(<<call.data_type, call.length % 256, call.length \div 256, 0>>),
         Sub(call.payload.bytes, 1, call.length))

\* C5: every frame a send path hands to the transport is the 4-byte header
\* (type, length low byte, length high byte, a zero reserved byte) followed by
\* exactly the payload bytes, in order.
C5_FrameIsHeaderThenPayload ==
  \A i \in 1..Len(sends) :
    /\ sends[i].data.data = WireFrame
    /\ sends[i].data.size = sends[i].data.data.len

\* C6: the buffer a send path allocates and the frame it sends are 4 + length
\* bytes long, and a call with valid arguments on a node that may send stops
\* short of the transport only when the allocation fails.
C6_EncodedSizeIsHeaderPlusLength ==
  /\ \A i \in 1..Len(sends) : sends[i].data.size = HeaderSize + call.length
  /\ (call.op # "none" /\ mallocs # <<>>) => mallocs[1].size = HeaderSize + call.length

\* C8: mesh_send_to_child and mesh_broadcast_from_root called on a started
\* node that is not the root return ESP_ERR_MESH_NOT_ROOT and send nothing.
C8_NotRootCode ==
  (/\ Returned
   /\ ValidArgs
   /\ call.op \in {"mesh_send_to_child", "mesh_broadcast_from_root"}
   /\ call.active
   /\ ~call.root)
  => /\ ret = ESP_ERR_MESH_NOT_ROOT
     /\ sends = <<>>
     /\ rt_queries = <<>>

\* C9: a send call with a null payload, a zero length or (to a child) a null
\* destination returns ESP_ERR_INVALID_ARG whatever the state of the mesh,
\* and does nothing else: no allocation, no routing-table query, no send.
C9_InvalidArgs ==
  (call.op # "none" /\ ~ValidArgs)
  => /\ ret = ESP_ERR_INVALID_ARG
     /\ mallocs = <<>>
     /\ frees = <<>>
     /\ sends = <<>>
     /\ rt_queries = <<>>
     /\ ~aborted

C9_Witness ==
  /\ call.op = "mesh_send_to_child"
  /\ call.dest = NULL_ADDR
  /\ ~call.payload.null
  /\ call.length = 4
  /\ call.active
  /\ call.root
  /\ ret = ESP_ERR_INVALID_ARG

\* C10 as stated: mesh_send_to_root with valid arguments returns
\* ESP_ERR_MESH_NOT_START without sending when the mesh is not started, and
\* otherwise sends exactly one frame towards the root and returns the result
\* of that send.
C10_AsStated ==
  (Returned /\ ValidArgs /\ call.op = "mesh_send_to_root")
  => IF ~call.active
     THEN ret = ESP_ERR_MESH_NOT_START /\ sends = <<>>
     ELSE /\ Len(sends) = 1
          /\ sends[1].to = NULL_ADDR
          /\ sends[1].flag = MESH_DATA_TODS
          /\ ret = sends[1].err

\* C10: mesh_send_to_root with valid arguments returns
\* ESP_ERR_MESH_NOT_START without sending when the mesh is not started; when
\* it is started and the packet allocation fails it returns ESP_ERR_NO_MEM
\* without sending; otherwise it sends exactly one frame towards the root
\* (null destination, MESH_DATA_TODS) and returns the result of that send.
C10_SendToRoot ==
  (Returned /\ ValidArgs /\ call.op = "mesh_send_to_root")
  => IF ~call.active
     THEN ret = ESP_ERR_MESH_NOT_START /\ sends = <<>> /\ mallocs = <<>>
     ELSE /\ Len(mallocs) = 1
          /\ IF ~mallocs[1].ok
             THEN ret = ESP_ERR_NO_MEM /\ sends = <<>>
             ELSE /\ Len(sends) = 1
                  /\ sends[1].to = NULL_ADDR
                  /\ sends[1].flag = MESH_DATA_TODS
                  /\ ret = sends[1].err
                  /\ frees = <<1>>

C10_Witness ==
  /\ call.op = "mesh_send_to_root"
  /\ call.active
  /\ Len(sends) = 1
  /\ sends[1].err = "ESP_ERR_MESH_NO_ROUTE_FOUND"
  /\ ret = "ESP_ERR_MESH_NO_ROUTE_FOUND"

\* A completed mesh_broadcast_from_root that passed the argument, started and
\* root checks
Broadcast ==
  /\ Returned
  /\ ValidArgs
  /\ call.op = "mesh_broadcast_from_root"
  /\ call.active
  /\ call.root

C4_LoopbackStep(t) ==
  (/\ pc[t] = "recv"
   /\ pc'[t] = "dispatch" \/ rx_log'[t] # rx_log[t]
   /\ sends # <<>>)
  => /\ pc'[t] = "dispatch"
     /\ rx_log'[t].msg = "received"
     /\ header_type(data'[t].data) = call.data_type
     /\ header_length(data'[t].data) = call.length
     /\ packet_payload(data'[t].data, header_length(data'[t].data))
          = Sub(call.payload.bytes, 1, call.length)

\* C4: for any type and any payload of 1 to 65535 bytes, the frame a send
\* path hands to the transport, fed unchanged to the receive loop, passes
\* validation with the type, the length and the payload bytes of the send
\* call (and is dispatched on to the callback with them).
C4_RoundTrip == [][\A t \in TaskIds : C4_LoopbackStep(t)]_vars

\* C11: mesh_send_to_root called with valid arguments on a started node that
\* is the root returns an error and hands nothing to the transport.
C11_RootCallRejected ==
  (/\ Returned
   /\ ValidArgs
   /\ call.op = "mesh_send_to_root"
   /\ call.active
   /\ call.root)
  => /\ ret # ESP_OK
     /\ sends = <<>>

\* The allocations of the last send call that gave a buffer
Allocated == {i \in 1..Len(mallocs) : mallocs[i].ok}

\* C12: when a send call whose packet fits its buffer has ended, whichever
\* way, every buffer it allocated has been freed exactly once: none is left
\* allocated, none is freed twice, nothing else is freed.
C12_EveryBufferFreedOnce ==
  (/\ call.op # "none"
   /\ ~Overflows(call.length))
  => /\ \A i \in Allocated : Cardinality({k \in 1..Len(frees) : frees[k] = i}) = 1
     /\ \A k \in 1..Len(frees) : frees[k] \in Allocated

\* C13: no send call terminates the process; a mesh_broadcast_from_root
\* whose routing-table query fails returns an error value to its caller.
C13_NothingIsFatal ==
  /\ (call.op # "none" /\ ~Overflows(call.length)) => ~aborted
  /\ (/\ call.op = "mesh_broadcast_from_root"
      /\ \E i \in 1..Len(rt_queries) : rt_queries[i].err # ESP_OK)
     => /\ ret \notin {"none", ESP_OK}
        /\ ~aborted

(***************************************************************************)
(* Properties of the callback registration and of the life cycle           *)
(***************************************************************************)
\* Tasks that were created and not deleted
LiveTasks == {t \in TaskIds : pc[t] \in {"start"} \cup LoopStates}

C14_StateOk ==
  /\ s_receive_callback \in Callbacks \cup {NULL_CB}
  /\ (ctl.op = "register" /\ ctl.ret = ESP_OK) => s_receive_callback = ctl.arg
  /\ \A t \in TaskIds : Len(invoked[t]) <= 1

C14_Step ==
  /\ (ctl' # ctl /\ ctl'.op = "register") =>
       IF ctl'.arg = NULL_CB
       THEN ctl'.ret = ESP_ERR_INVALID_ARG /\ s_receive_callback' = s_receive_callback
       ELSE ctl'.ret = ESP_OK /\ s_receive_callback' = ctl'.arg
  /\ s_receive_callback' # s_receive_callback =>
       \/ ctl' = Ctl("register", s_receive_callback', ESP_OK) /\ s_receive_callback' # NULL_CB
       \/ ctl' = Ctl("deinit", NULL_CB, ESP_OK) /\ s_receive_callback' = NULL_CB
  /\ \A t \in TaskIds :
       (pc[t] = "dispatch" /\ pc'[t] = "callback") =>
          /\ s_receive_callback # NULL_CB
          /\ Len(invoked'[t]) = 1
          /\ invoked'[t][1].cb = s_receive_callback

\* C14: one callback at most is registered; registering null returns
\* ESP_ERR_INVALID_ARG and keeps the registered callback; registering a
\* callback replaces the registered one, and from the return of that call on
\* every dispatch that starts invokes the new callback, once, and no other.
C14_OneCallback == []C14_StateOk /\ [][C14_Step]_vars

C14_Witness ==
  /\ ctl = Ctl("register", "cb2", ESP_OK)
  /\ \E t \in TaskIds :
       /\ pc[t] = "callback"
       /\ invoked[t] # <<>>
       /\ invoked[t][1].cb = "cb2"

\* C15: a receive buffer is allocated only while the receive task that
\* allocated it exists; after a successful mesh_data_transfer_deinit no
\* receive task exists and no receive buffer is left allocated.
C15_BufferReleased ==
  /\ \A t \in rx_heap : t \in LiveTasks
  /\ ctl = Ctl("deinit", NULL_CB, ESP_OK) => (LiveTasks = {} /\ rx_heap = {})

C17_Step ==
  /\ (ctl' # ctl /\ ctl'.op = "init") =>
       IF s_initialized
       THEN /\ ctl'.ret = ESP_ERR_INVALID_STATE
            /\ UNCHANGED <<s_initialized, s_receive_task_handle, s_receive_callback,
                           pc, rx_heap>>
       ELSE /\ ctl'.ret \in {ESP_OK, ESP_FAIL}
            /\ ctl'.ret = ESP_FAIL =>
                 /\ ~s_initialized'
                 /\ UNCHANGED <<s_receive_task_handle, s_receive_callback, pc, rx_heap>>
  /\ (ctl' # ctl /\ ctl'.op = "deinit") =>
       IF ~s_initialized
       THEN /\ ctl'.ret = ESP_FAIL
            /\ UNCHANGED <<s_initialized, s_receive_task_handle, s_receive_callback,
                           pc, rx_heap>>
       ELSE ctl'.ret = ESP_OK
  /\ (\E t \in TaskIds : pc[t] = "unborn" /\ pc'[t] # "unborn") =>
       /\ ~s_initialized
       /\ ctl' = Ctl("init", NULL_CB, ESP_OK)
       /\ Cardinality({t \in TaskIds : pc[t] = "unborn" /\ pc'[t] # "unborn"}) = 1

\* C17: mesh_data_transfer_init on an initialized component returns
\* ESP_ERR_INVALID_STATE and creates no task; when the task cannot be created
\* it returns ESP_FAIL and the component stays uninitialized;
\* mesh_data_transfer_deinit on an uninitialized component returns ESP_FAIL
\* and changes neither the task, the callback nor s_initialized.
C17_LifeCycleErrors == [][C17_Step]_vars

C17_Witness ==
  /\ ctl = Ctl("init", NULL_CB, ESP_ERR_INVALID_STATE)
  /\ s_initialized
  /\ Cardinality(LiveTasks) = 1

\* C16: however calls of mesh_data_transfer_init and _deinit made from
\* several tasks interleave, at most one receive task exists at any time.
C16_OneReceiveTask == Cardinality(LiveTasks) <= 1

(***************************************************************************)
(* Properties of the registry and of the resolver                          *)
(***************************************************************************)
\* A step of mesh_send_to_node_id that is not a repetition without effect
ResolveStep ==
  /\ reg_call'.op = "mesh_send_to_node_id"
  /\ <<reg_call, reg_ret, txvars>>' # <<reg_call, reg_ret, txvars>>

\* A step of mesh_register_node that is not a repetition without effect
RegisterStep ==
  /\ reg_call'.op = "mesh_register_node"
  /\ regvars' # regvars

RegisterArgsOk ==
  /\ reg_call'.node_id # 0
  /\ reg_call'.mac_addr # NULL_ADDR
  /\ reg_call'.name # NULL_NAME

C18_Step ==
  /\ (/\ ResolveStep
      /\ reg_call'.root
      /\ reg_call'.node_id # 0
      /\ ~reg_call'.payload.null
      /\ reg_call'.length > 0)
     => LET slots == Slots(registry, reg_call'.node_id)
        IN IF slots # {}
           THEN /\ Cardinality(slots) = 1
                /\ \A i \in slots :
                     /\ call' = CallRec("mesh_send_to_child", registry[i].mac_addr,
                                        reg_call'.data_type, reg_call'.payload,
                                        reg_call'.length, reg_call'.active, TRUE)
                     /\ \A k \in 1..Len(sends') : sends'[k].to = registry[i].mac_addr
                /\ reg_ret' = ret'
                /\ reg_ret' # ESP_ERR_NOT_FOUND
           ELSE /\ reg_ret' = ESP_ERR_NOT_FOUND
                /\ ESP_ERR_NOT_FOUND \notin {ESP_OK, ESP_FAIL, ESP_ERR_NO_MEM,
                                             ESP_ERR_MESH_NOT_ROOT, ESP_ERR_INVALID_ARG}
                /\ UNCHANGED txvars
  /\ registry' # registry =>
       \/ reg_call'.op = "mesh_clear_node_registry"
       \/ /\ reg_call'.op = "mesh_register_node"
          /\ reg_ret' = ESP_OK
          /\ \A i \in Slots(registry', reg_call'.node_id) :
               registry'[i].mac_addr = reg_call'.mac_addr

\* C18: mesh_send_to_node_id on the root forwards a registered node_id to
\* mesh_send_to_child with the address its entry holds, which is the address
\* of the last registration of that id, and returns that call's result; for
\* a node_id not in the registry it returns ESP_ERR_NOT_FOUND, which is none
\* of the role and resource errors, and no send call is made.
C18_Resolver == [][C18_Step]_vars

C18_Witness ==
  /\ reg_call.op = "mesh_send_to_node_id"
  /\ reg_call.node_id = 1
  /\ reg_ret = ESP_OK
  /\ Len(registry) >= 2
  /\ \E i \in 1..Len(registry) :
       registry[i].node_id = 1 /\ registry[i].mac_addr = "mac_B"
  /\ call.op = "mesh_send_to_child"
  /\ call.dest = "mac_B"
  /\ Len(sends) = 1
  /\ sends[1].to = "mac_B"

C19_Step ==
  (/\ RegisterStep
   /\ RegisterArgsOk
   /\ Slots(registry, reg_call'.node_id) # {})
  => /\ reg_ret' = ESP_OK
     /\ Len(registry') = Len(registry)
     /\ Cardinality(Slots(registry', reg_call'.node_id)) = 1
     /\ \A i \in 1..Len(registry) :
          IF registry[i].node_id = reg_call'.node_id
          THEN registry'[i] = Entry(reg_call'.node_id, reg_call'.mac_addr,
                                    reg_call'.node_type, reg_call'.name)
          ELSE registry'[i] = registry[i]

\* C19: registering a node_id that is in the registry leaves one entry for
\* it, in the same slot, holding the address, type and name of this call;
\* the count and every other entry, in their order, are unchanged.
C19_RegisterTwice == [][C19_Step]_vars

C19_Witness ==
  /\ reg_call = RegCall(1, "mac_B", MESH_NODE_TYPE_ACTUATOR, "actuator_1")
  /\ reg_ret = ESP_OK
  /\ mesh_get_registered_node_count = 3
  /\ mesh_get_registered_node_info(0).node_info
       = Entry(1, "mac_B", MESH_NODE_TYPE_ACTUATOR, "actuator_1")
  /\ mesh_get_registered_node_info(1).node_info.node_id = 2
  /\ call.op = "mesh_send_to_child"
  /\ call.dest = "mac_A"

C20_StateOk ==
  /\ mesh_get_registered_node_count <= MESH_MAX_REGISTERED_NODES
  /\ \A i, j \in 1..Len(registry) :
       registry[i].node_id = registry[j].node_id => i = j

C20_Step ==
  (/\ RegisterStep
   /\ RegisterArgsOk
   /\ Slots(registry, reg_call'.node_id) = {}
   /\ Len(registry) = MESH_MAX_REGISTERED_NODES)
  => /\ reg_ret' = ESP_ERR_NO_MEM
     /\ registry' = registry

\* C20: the registry never holds more than MESH_MAX_REGISTERED_NODES
\* entries, and no two with the same node_id; registering a new node_id in a
\* full registry returns the resource error and leaves every entry and the
\* count as they are.
C20_Capacity == []C20_StateOk /\ [][C20_Step]_vars

C20_Witness ==
  /\ reg_call.op = "mesh_register_node"
  /\ reg_call.node_id = ProbeId
  /\ reg_ret = ESP_ERR_NO_MEM
  /\ mesh_get_registered_node_count = MESH_MAX_REGISTERED_NODES

(***************************************************************************)
(* Properties of the fan-out                                               *)
(***************************************************************************)
\* The last send call was a fan-out that fetched the routing table
Fetched ==
  /\ call.op = "mesh_broadcast_from_root"
  /\ Len(rt_queries) = 2
  /\ rt_queries[2].q = "table"
  /\ rt_queries[2].err = ESP_OK

\* C22: a fan-out that fetched the routing table makes one transport send
\* for every address of the fetched table and no other, in the order of the
\* table, downstream, each with the same packet handed over (packet_size
\* bytes of the packet buffer); a send that fails is followed by the sends
\* to the addresses after it.
C22_SendsToEveryAddress ==
  Fetched
  => /\ Returned
     /\ Len(sends) = Len(rt_queries[2].table)
     /\ \A i \in 1..Len(sends) :
          /\ sends[i].to = rt_queries[2].table[i]
          /\ sends[i].flag = MESH_DATA_FROMDS
          /\ sends[i].data = mesh_data(call.data_type, call.payload, call.length)
          /\ sends[i].data = sends[1].data

C22_Witness ==
  /\ Fetched
  /\ rt_queries[2].table = <<"mac_A", "mac_B", "mac_C">>
  /\ Len(sends) = 3
  /\ sends[1].err # ESP_OK
  /\ sends[2].err = ESP_OK
  /\ sends[3].err # ESP_OK
  /\ sends[3].to = "mac_C"

\* C23: when the routing table changes between the size query and the
\* fetch, a fan-out whose allocations succeeded still returns a failure only
\* if it attempted at least one send and every send it attempted failed; a
\* table found empty by the fetch gives ESP_OK with no send, as a table the
\* size query finds empty does.
C23_RaceKeepsResult ==
  (Fetched /\ Returned /\ \A i \in 1..Len(mallocs) : mallocs[i].ok)
  => /\ ret # ESP_OK =>
          /\ sends # <<>>
          /\ \A i \in 1..Len(sends) : sends[i].err # ESP_OK
     /\ rt_queries[2].table = <<>> => (ret = ESP_OK /\ sends = <<>>)

(***************************************************************************)
(* Properties of the initialized state and of the delivery                 *)
(***************************************************************************)
\* C24: while the component is initialized the stored handle is the handle
\* of a receive task that exists: one that is created and about to allocate
\* its receive buffer, or one that owns its buffer and is in its receive
\* loop; the component is never initialized with no task listening, whether
\* the allocation of the receive buffer succeeds or fails.
C24_InitializedMeansListening ==
  s_initialized
  => /\ s_receive_task_handle # NULL_TASK
     /\ pc[s_receive_task_handle] \in {"start"} \cup LoopStates
     /\ pc[s_receive_task_handle] \in LoopStates => s_receive_task_handle \in rx_heap

\* Receive tasks whose callback invocation is in progress
InCallback == {t \in TaskIds : pc[t] = "callback"}

\* Receive tasks holding a frame the transport returned, not yet delivered
\* or in delivery
HoldsFrame == {t \in TaskIds : pc[t] \in {"dispatch", "callback"}}

C25_StateOk ==
  /\ Cardinality(InCallback) <= 1
  /\ Cardinality(HoldsFrame) <= 1

C25_Step(t) ==
  /\ (pc[t] = "callback" /\ pc'[t] = "callback") =>
       /\ data'[t] = data[t]
       /\ invoked'[t] = invoked[t]
  /\ (pc[t] # "dispatch" /\ pc'[t] = "dispatch") =>
       /\ pc[t] = "recv"
       /\ invoked[t] = <<>>
  /\ (pc[t] # "callback" /\ pc'[t] = "callback") =>
       /\ pc[t] = "dispatch"
       /\ data'[t] = data[t]

\* C25: a frame the transport returned is delivered before the next frame
\* is taken from the transport, so frames reach the callback in the order
\* the transport returned them; a receive starts only in a loop that holds
\* no frame and has no invocation in progress, so one invocation at most is
\* in progress at any time; and the receive buffer keeps the frame from the
\* dispatch to the return of the callback.
C25_DeliveredInOrder ==
  /\ []C25_StateOk
  /\ [][\A t \in TaskIds : C25_Step(t)]_vars

(***************************************************************************)
(* Properties of the identity announcements                                *)
(***************************************************************************)
\* The receive path of task t is done with the frame in its hands
HandledStep(t) == pc[t] = "callback" /\ pc'[t] = "recv"

\* The frame in the hands of task t is of the config type and carries an
\* identity record
CarriesIdentity(t) ==
  /\ data[t].data.head[1] = MESH_DATA_TYPE_CONFIG
  /\ data[t].data.head[2] + 256 * data[t].data.head[3] = IdentitySize
  /\ data[t].size = IdentitySize + 4

C21_Step(t) ==
  (HandledStep(t) /\ CarriesIdentity(t)) =>
     LET node_id == data[t].data.head[5]
         held == {i \in 1..Len(registry') : registry'[i].node_id = node_id}
         before == {i \in 1..Len(registry) : registry[i].node_id = node_id}
     IN /\ Cardinality(held) = 1
        /\ \A i \in held : /\ registry'[i].mac_addr = from[t]
                           /\ registry'[i].node_type = data[t].data.head[6]
        /\ IF before = {}
           THEN /\ Len(registry') = Len(registry) + 1
                /\ held = {Len(registry')}
           ELSE /\ Len(registry') = Len(registry)
                /\ held = before
        /\ \A i \in 1..Len(registry) : i \notin before => registry'[i] = registry[i]

\* C21: when the receive path of the root is done with a valid frame of the
\* config type that carries an identity record, the registry holds one entry
\* for the node_id of the record, with the transport source address of the
\* frame as its address: a new entry at the end when the node_id was not
\* registered, the entry of that node_id refreshed in its slot otherwise;
\* the other entries are as they were.
C21_IdentityRegisters == [][\A t \in TaskIds : C21_Step(t)]_vars

====
